---------------------------- MODULE Spec2Model ----------------------------
(***************************************************************************)
(* Model of server/aesdsocket_backup.c: a single-threaded TCP server that  *)
(* appends newline-terminated packets to a data file and, after each       *)
(* packet, sends the whole file back to the client.                        *)
(*                                                                         *)
(* The program is one sequential process; pc is its position, one value    *)
(* per system call it is about to make or loop test it is about to         *)
(* evaluate.  Computation on local variables between two such points is    *)
(* part of the step that precedes it.  The environment (client, signals,   *)
(* failing system calls) is a set of separate actions.                     *)
(*                                                                         *)
(* examples/threading/threading.c is modelled next to it: the threads      *)
(* started with start_thread_obtaining_mutex on one mutex (ThreadSpec).    *)
(*                                                                         *)
(* Indices start, i, written, sent_total are the C values (0-based);       *)
(* sequences are 1-based, so packet_buf[i] of the C code is                *)
(* packet_buf[i + 1] here.                                                 *)
(***************************************************************************)
EXTENDS Integers, Sequences, FiniteSets, TLC

(***************************************************************************)
(* Bounds of the model.                                                    *)
(***************************************************************************)
\* recv_buf[1024] (line 130), scaled down: largest chunk one recv returns.
RecvBufSize == 4
\* buf[1024] (line 88), scaled down: largest chunk one file read returns.
FileBufSize == 2
\* Bytes all clients together send during one run.
MaxBytes == 4
\* Connections accepted during one run.
MaxConns == 2
\* System calls that fail, or are interrupted without a signal, in one run.
MaxFaults == 1
\* Threads started on the same mutex (threading.c).
NumThreads == 3

NL == "\n"
\* The server compares bytes with the newline only, so one payload byte per
\* record is enough: the records clients send alternate between "a" and "b".
Payload(k) == IF k % 2 = 0 THEN "a" ELSE "b"

SIGINT == "SIGINT"
SIGTERM == "SIGTERM"
Signals == {SIGINT, SIGTERM}

(***************************************************************************)
(* Pure helpers on byte sequences.                                         *)
(***************************************************************************)
Min(x, y) == IF x < y THEN x ELSE y

\* C: the bytes p[from .. from+n) of a 0-based buffer.
Span(p, from, n) == SubSeq(p, from + 1, from + n)

\* Positions (1-based) of the newlines of s.
NLs(s) == {k \in 1..Len(s) : s[k] = NL}

\* Number of newlines in s.
NumNL(s) == Cardinality(NLs(s))

\* Position of the k-th newline of s; 0 for k = 0.
NthNL(s, k) ==
    IF k = 0 THEN 0
    ELSE CHOOSE p \in NLs(s) : Cardinality({q \in NLs(s) : q <= p}) = k

\* The first k complete records of s, concatenated.
FirstRecords(s, k) == SubSeq(s, 1, NthNL(s, k))

\* All complete records of s, concatenated: s up to its last newline.
CompleteRecords(s) == FirstRecords(s, NumNL(s))

\* The unterminated suffix of s: what follows its last newline.
Unterminated(s) == SubSeq(s, NthNL(s, NumNL(s)) + 1, Len(s))

IsPrefix(s, t) == Len(s) <= Len(t) /\ SubSeq(t, 1, Len(s)) = s

RECURSIVE Flatten(_)
Flatten(ss) == IF ss = <<>> THEN <<>> ELSE Head(ss) \o Flatten(Tail(ss))

(***************************************************************************)
(* State.                                                                  *)
(***************************************************************************)
VARIABLES
    pc,              \* position of the process
    exit_requested,  \* line 30
    handlers,        \* signals whose disposition is signal_handler
    ret,             \* main: ret
    server_fd,       \* main: "none" (-1), "open", "closed"
    client_fd,       \* main: "none", "open", "closed"
    fileExists,      \* DATA_FILE exists
    fileData,        \* contents of DATA_FILE
    inflight,        \* bytes the client sent that recv has not returned yet
    peerClosed,      \* the client closed its end
    packet_buf,      \* handle_client: packet_buf[0 .. packet_size)
    start,           \* handle_client: start
    i,               \* handle_client: i
    written,         \* append_to_file: written
    fpos,            \* send_file_contents: file offset of fd
    buf,             \* send_file_contents: buf[0 .. bytes)
    sent_total,      \* send_file_contents: sent_total
    faults,          \* failed or spuriously interrupted calls so far
    conns,           \* connections accepted so far
    sentBytes,       \* bytes sent by clients so far
    sentNL,          \* newlines sent by clients so far
    \* History of the run, read only by the properties.
    received,        \* bytes recv returned on this connection
    resp,            \* bytes sent to the client by the echo in progress
    echoes,          \* appends of this connection that returned 0
    storeAtAccept,   \* [exists, data] of the file when accept returned
    storeAtAppend,   \* contents of the file when append_to_file was entered
    appendedOK,      \* records whose append_to_file returned 0, in order
    appendFailed,    \* an append_to_file of this connection returned -1
    echoFailed,      \* a send_file_contents of this connection returned -1
    closeReason,     \* why handle_client left its loop
    prevReceived,    \* the bytes the connection before this one received
    clientCloses,    \* close(client_fd) calls made so far (line 297)
    serverCloses,    \* close(server_fd) calls made so far (line 308)
    failedSetup,     \* the setup step that failed, or "none"
    sfcCalls,        \* send_file_contents calls made on this connection
    flagAtAccept,    \* exit_requested as it was when accept returned
    removeErrno,     \* line 314: "none" before remove, "0" when it returned 0,
                     \* else the errno it left
    removeLogged,    \* line 315 was executed
    submitted,       \* for every append_to_file call of this connection, in
                     \* order: the number of bytes received up to the end of
                     \* the record it was given
    \* threading.c
    tpc,             \* position of every thread
    mutex,           \* *mutex: the thread that holds it, or 0
    thread_complete_success,  \* info->pub.thread_complete_success
    tops             \* history: the calls every thread has made, in order

vars == <<pc, exit_requested, handlers, ret, server_fd, client_fd,
          fileExists, fileData, inflight, peerClosed, packet_buf, start, i,
          written, fpos, buf, sent_total, faults, conns, sentBytes, sentNL,
          received, resp, echoes, storeAtAccept, storeAtAppend, appendedOK,
          appendFailed, echoFailed, closeReason, prevReceived, clientCloses,
          serverCloses, failedSetup, sfcCalls, flagAtAccept, removeErrno,
          removeLogged, submitted, tpc, mutex, thread_complete_success, tops>>

Init ==
    /\ pc = "sigaction_int"
    /\ exit_requested = FALSE
    /\ handlers = {}
    /\ ret = 0
    /\ server_fd = "none"
    /\ client_fd = "none"
    /\ fileExists = FALSE
    /\ fileData = <<>>
    /\ inflight = <<>>
    /\ peerClosed = FALSE
    /\ packet_buf = <<>>
    /\ start = 0
    /\ i = 0
    /\ written = 0
    /\ fpos = 0
    /\ buf = <<>>
    /\ sent_total = 0
    /\ faults = 0
    /\ conns = 0
    /\ sentBytes = 0
    /\ sentNL = 0
    /\ received = <<>>
    /\ resp = <<>>
    /\ echoes = 0
    /\ storeAtAccept = [exists |-> FALSE, data |-> <<>>]
    /\ storeAtAppend = <<>>
    /\ appendedOK = <<>>
    /\ appendFailed = FALSE
    /\ echoFailed = FALSE
    /\ closeReason = "none"
    /\ prevReceived = <<>>
    /\ clientCloses = 0
    /\ serverCloses = 0
    /\ failedSetup = "none"
    /\ sfcCalls = 0
    /\ flagAtAccept = FALSE
    /\ removeErrno = "none"
    /\ removeLogged = FALSE
    /\ submitted = <<>>
    /\ tpc = [t \in 1..NumThreads |-> "unstarted"]
    /\ mutex = 0
    /\ thread_complete_success = [t \in 1..NumThreads |-> FALSE]
    /\ tops = [t \in 1..NumThreads |-> <<>>]

\* A system call may fail, or return EINTR without a signal, only while the
\* budget lasts.
MayFail == faults < MaxFaults

\* The process moves on.
Goto(l) == pc' = l

(***************************************************************************)
(* main, setup phase (lines 207-264).  Every step either succeeds and      *)
(* falls through to the next one, or sets ret = -1 and jumps to cleanup.   *)
(***************************************************************************)
\* Mutant of SetupFails: the failed step jumps to cleanup without ret = -1.
SetupFails_KeepingRet(at) ==
    /\ pc = at
    /\ MayFail
    /\ faults' = faults + 1
    /\ failedSetup' = at
    /\ Goto("cleanup")
    /\ UNCHANGED <<exit_requested, handlers, ret, server_fd, client_fd,
                   fileExists, fileData, inflight, peerClosed, packet_buf,
                   start, i, written, fpos, buf, sent_total, conns, sentBytes,
                   sentNL, received, resp, echoes, storeAtAccept,
                   storeAtAppend, appendedOK, appendFailed, echoFailed,
                   closeReason, prevReceived, clientCloses, serverCloses,
                   sfcCalls, flagAtAccept, removeErrno, removeLogged,
                   submitted, tpc, mutex, thread_complete_success, tops>>

\* Mutant of SetupFails: the failed step returns ret at once.
SetupFails_Returning(at) ==
    /\ pc = at
    /\ MayFail
    /\ faults' = faults + 1
    /\ ret' = -1
    /\ failedSetup' = at
    /\ Goto("done")
    /\ UNCHANGED <<exit_requested, handlers, server_fd, client_fd, fileExists,
                   fileData, inflight, peerClosed, packet_buf, start, i,
                   written, fpos, buf, sent_total, conns, sentBytes, sentNL,
                   received, resp, echoes, storeAtAccept, storeAtAppend,
                   appendedOK, appendFailed, echoFailed, closeReason,
                   prevReceived, clientCloses, serverCloses, sfcCalls,
                   flagAtAccept, removeErrno, removeLogged, submitted, tpc,
                   mutex, thread_complete_success, tops>>

SetupFails(at) ==
    /\ pc = at
    /\ MayFail
    /\ faults' = faults + 1
    /\ ret' = -1
    /\ failedSetup' = at
    /\ Goto("cleanup")
    /\ UNCHANGED <<exit_requested, handlers, server_fd, client_fd, fileExists,
                   fileData, inflight, peerClosed, packet_buf, start, i,
                   written, fpos, buf, sent_total, conns, sentBytes, sentNL,
                   received, resp, echoes, storeAtAccept, storeAtAppend,
                   appendedOK, appendFailed, echoFailed, closeReason,
                   prevReceived, clientCloses, serverCloses, sfcCalls,
                   flagAtAccept, removeErrno, removeLogged, submitted, tpc,
                   mutex, thread_complete_success, tops>>

\* Lines 219-223.
main_sigaction_SIGINT ==
    /\ pc = "sigaction_int"
    /\ handlers' = handlers \cup {SIGINT}
    /\ Goto("sigaction_term")
    /\ UNCHANGED <<exit_requested, ret, server_fd, client_fd, fileExists,
                   fileData, inflight, peerClosed, packet_buf, start, i,
                   written, fpos, buf, sent_total, faults, conns, sentBytes,
                   sentNL, received, resp, echoes, storeAtAccept,
                   storeAtAppend, appendedOK, appendFailed, echoFailed,
                   closeReason, prevReceived, clientCloses, serverCloses,
                   failedSetup, sfcCalls, flagAtAccept, removeErrno,
                   removeLogged, submitted, tpc, mutex,
                   thread_complete_success, tops>>

main_sigaction_SIGINT_fails == SetupFails("sigaction_int")

\* Lines 224-228.
main_sigaction_SIGTERM ==
    /\ pc = "sigaction_term"
    /\ handlers' = handlers \cup {SIGTERM}
    /\ Goto("socket")
    /\ UNCHANGED <<exit_requested, ret, server_fd, client_fd, fileExists,
                   fileData, inflight, peerClosed, packet_buf, start, i,
                   written, fpos, buf, sent_total, faults, conns, sentBytes,
                   sentNL, received, resp, echoes, storeAtAccept,
                   storeAtAppend, appendedOK, appendFailed, echoFailed,
                   closeReason, prevReceived, clientCloses, serverCloses,
                   failedSetup, sfcCalls, flagAtAccept, removeErrno,
                   removeLogged, submitted, tpc, mutex,
                   thread_complete_success, tops>>

main_sigaction_SIGTERM_fails == SetupFails("sigaction_term")

\* Lines 231-236.
main_socket ==
    /\ pc = "socket"
    /\ server_fd' = "open"
    /\ Goto("setsockopt")
    /\ UNCHANGED <<exit_requested, handlers, ret, client_fd, fileExists,
                   fileData, inflight, peerClosed, packet_buf, start, i,
                   written, fpos, buf, sent_total, faults, conns, sentBytes,
                   sentNL, received, resp, echoes, storeAtAccept,
                   storeAtAppend, appendedOK, appendFailed, echoFailed,
                   closeReason, prevReceived, clientCloses, serverCloses,
                   failedSetup, sfcCalls, flagAtAccept, removeErrno,
                   removeLogged, submitted, tpc, mutex,
                   thread_complete_success, tops>>

main_socket_fails == SetupFails("socket")

\* Lines 239-244.
main_setsockopt ==
    /\ pc = "setsockopt"
    /\ Goto("bind")
    /\ UNCHANGED <<exit_requested, handlers, ret, server_fd, client_fd,
                   fileExists, fileData, inflight, peerClosed, packet_buf,
                   start, i, written, fpos, buf, sent_total, faults, conns,
                   sentBytes, sentNL, received, resp, echoes, storeAtAccept,
                   storeAtAppend, appendedOK, appendFailed, echoFailed,
                   closeReason, prevReceived, clientCloses, serverCloses,
                   failedSetup, sfcCalls, flagAtAccept, removeErrno,
                   removeLogged, submitted, tpc, mutex,
                   thread_complete_success, tops>>

main_setsockopt_fails == SetupFails("setsockopt")

\* Lines 247-257.
main_bind ==
    /\ pc = "bind"
    /\ Goto("listen")
    /\ UNCHANGED <<exit_requested, handlers, ret, server_fd, client_fd,
                   fileExists, fileData, inflight, peerClosed, packet_buf,
                   start, i, written, fpos, buf, sent_total, faults, conns,
                   sentBytes, sentNL, received, resp, echoes, storeAtAccept,
                   storeAtAppend, appendedOK, appendFailed, echoFailed,
                   closeReason, prevReceived, clientCloses, serverCloses,
                   failedSetup, sfcCalls, flagAtAccept, removeErrno,
                   removeLogged, submitted, tpc, mutex,
                   thread_complete_success, tops>>

main_bind_fails == SetupFails("bind")

\* Lines 260-264.
main_listen ==
    /\ pc = "listen"
    /\ Goto("loop")
    /\ UNCHANGED <<exit_requested, handlers, ret, server_fd, client_fd,
                   fileExists, fileData, inflight, peerClosed, packet_buf,
                   start, i, written, fpos, buf, sent_total, faults, conns,
                   sentBytes, sentNL, received, resp, echoes, storeAtAccept,
                   storeAtAppend, appendedOK, appendFailed, echoFailed,
                   closeReason, prevReceived, clientCloses, serverCloses,
                   failedSetup, sfcCalls, flagAtAccept, removeErrno,
                   removeLogged, submitted, tpc, mutex,
                   thread_complete_success, tops>>

main_listen_fails == SetupFails("listen")

(***************************************************************************)
(* main, accept loop (lines 267-300).                                      *)
(***************************************************************************)
\* Line 267: while (!exit_requested).
main_loop_test ==
    /\ pc = "loop"
    /\ IF exit_requested THEN Goto("cleanup") ELSE Goto("accept")
    /\ UNCHANGED <<exit_requested, handlers, ret, server_fd, client_fd,
                   fileExists, fileData, inflight, peerClosed, packet_buf,
                   start, i, written, fpos, buf, sent_total, faults, conns,
                   sentBytes, sentNL, received, resp, echoes, storeAtAccept,
                   storeAtAppend, appendedOK, appendFailed, echoFailed,
                   closeReason, prevReceived, clientCloses, serverCloses,
                   failedSetup, sfcCalls, flagAtAccept, removeErrno,
                   removeLogged, submitted, tpc, mutex,
                   thread_complete_success, tops>>

\* Lines 270-293 and 130-133: accept returns a connection and handle_client
\* is entered with an empty packet buffer.
main_accept ==
    /\ pc = "accept"
    /\ conns < MaxConns
    /\ conns' = conns + 1
    /\ client_fd' = "open"
    /\ inflight' = <<>>
    /\ peerClosed' = FALSE
    /\ packet_buf' = <<>>
    /\ received' = <<>>
    /\ resp' = <<>>
    /\ echoes' = 0
    /\ storeAtAccept' = [exists |-> fileExists, data |-> fileData]
    /\ appendFailed' = FALSE
    /\ echoFailed' = FALSE
    /\ closeReason' = "none"
    /\ sfcCalls' = 0
    /\ flagAtAccept' = exit_requested
    /\ submitted' = <<>>
    /\ Goto("hc_loop")
    /\ UNCHANGED <<exit_requested, handlers, ret, server_fd, fileExists,
                   fileData, start, i, written, fpos, buf, sent_total, faults,
                   sentBytes, sentNL, storeAtAppend, appendedOK, prevReceived,
                   clientCloses, serverCloses, failedSetup, removeErrno,
                   removeLogged, tpc, mutex, thread_complete_success, tops>>

\* Lines 271-279: accept returned -1 with errno = EINTR while the flag was f.
accept_EINTR(f) ==
    /\ pc' = IF f THEN "cleanup" ELSE "loop"
    /\ UNCHANGED <<handlers, ret, server_fd, client_fd, fileExists, fileData,
                   inflight, peerClosed, packet_buf, start, i, written, fpos,
                   buf, sent_total, conns, sentBytes, sentNL, received, resp,
                   echoes, storeAtAccept, storeAtAppend, appendedOK,
                   appendFailed, echoFailed, closeReason, prevReceived,
                   clientCloses, serverCloses, failedSetup, sfcCalls,
                   flagAtAccept, removeErrno, removeLogged, submitted, tpc,
                   mutex, thread_complete_success, tops>>

main_accept_EINTR ==
    /\ pc = "accept"
    /\ accept_EINTR(exit_requested)
    /\ UNCHANGED <<exit_requested, faults>>

\* Lines 281-282: any other accept failure is logged and the loop continues.
main_accept_fails ==
    /\ pc = "accept"
    /\ Goto("loop")
    /\ UNCHANGED <<exit_requested, handlers, ret, server_fd, client_fd,
                   fileExists, fileData, inflight, peerClosed, packet_buf,
                   start, i, written, fpos, buf, sent_total, faults, conns,
                   sentBytes, sentNL, received, resp, echoes, storeAtAccept,
                   storeAtAppend, appendedOK, appendFailed, echoFailed,
                   closeReason, prevReceived, clientCloses, serverCloses,
                   failedSetup, sfcCalls, flagAtAccept, removeErrno,
                   removeLogged, submitted, tpc, mutex,
                   thread_complete_success, tops>>

\* Mutant of main_close_client: the loop goes on without close(client_fd).
main_close_client_Leaking ==
    /\ pc = "close_client"
    /\ inflight' = <<>>
    /\ peerClosed' = FALSE
    /\ Goto("loop")
    /\ UNCHANGED <<exit_requested, handlers, ret, server_fd, client_fd,
                   fileExists, fileData, packet_buf, start, i, written, fpos,
                   buf, sent_total, faults, conns, sentBytes, sentNL,
                   received, resp, echoes, storeAtAccept, storeAtAppend,
                   appendedOK, appendFailed, echoFailed, closeReason,
                   prevReceived, clientCloses, serverCloses, failedSetup,
                   sfcCalls, flagAtAccept, removeErrno, removeLogged,
                   submitted, tpc, mutex, thread_complete_success, tops>>

\* Lines 295-299: close(client_fd), whatever close returns.
main_close_client ==
    /\ pc = "close_client"
    /\ client_fd' = "closed"
    /\ clientCloses' = clientCloses + 1
    /\ inflight' = <<>>
    /\ peerClosed' = FALSE
    /\ Goto("loop")
    /\ UNCHANGED <<exit_requested, handlers, ret, server_fd, fileExists,
                   fileData, packet_buf, start, i, written, fpos, buf,
                   sent_total, faults, conns, sentBytes, sentNL, received,
                   resp, echoes, storeAtAccept, storeAtAppend, appendedOK,
                   appendFailed, echoFailed, closeReason, prevReceived,
                   serverCloses, failedSetup, sfcCalls, flagAtAccept,
                   removeErrno, removeLogged, submitted, tpc, mutex,
                   thread_complete_success, tops>>

(***************************************************************************)
(* main, cleanup (lines 302-320).                                          *)
(***************************************************************************)
\* Mutant of main_cleanup_close: cleanup goes on without close(server_fd).
main_cleanup_close_Skipping ==
    /\ pc = "cleanup"
    /\ Goto("remove")
    /\ UNCHANGED <<exit_requested, handlers, ret, server_fd, client_fd,
                   fileExists, fileData, inflight, peerClosed, packet_buf,
                   start, i, written, fpos, buf, sent_total, faults, conns,
                   sentBytes, sentNL, received, resp, echoes, storeAtAccept,
                   storeAtAppend, appendedOK, appendFailed, echoFailed,
                   closeReason, prevReceived, clientCloses, serverCloses,
                   failedSetup, sfcCalls, flagAtAccept, removeErrno,
                   removeLogged, submitted, tpc, mutex,
                   thread_complete_success, tops>>

\* Lines 307-311: close(server_fd) when server_fd != -1.
main_cleanup_close ==
    /\ pc = "cleanup"
    /\ server_fd' = IF server_fd # "none" THEN "closed" ELSE server_fd
    /\ serverCloses' = IF server_fd # "none" THEN serverCloses + 1
                                             ELSE serverCloses
    /\ Goto("remove")
    /\ UNCHANGED <<exit_requested, handlers, ret, client_fd, fileExists,
                   fileData, inflight, peerClosed, packet_buf, start, i,
                   written, fpos, buf, sent_total, faults, conns, sentBytes,
                   sentNL, received, resp, echoes, storeAtAccept,
                   storeAtAppend, appendedOK, appendFailed, echoFailed,
                   closeReason, prevReceived, clientCloses, failedSetup,
                   sfcCalls, flagAtAccept, removeErrno, removeLogged,
                   submitted, tpc, mutex, thread_complete_success, tops>>

\* Line 314: the condition under which the failure of remove is logged, for
\* the value rc it returned and the errno it left.
RemoveLogs(rc, errno) == rc = -1 /\ errno # "ENOENT"

\* Lines 314-319: remove(DATA_FILE) returns 0 when the file was there and
\* -1 with errno = ENOENT when it was not.
main_remove ==
    /\ pc = "remove"
    /\ fileExists' = FALSE
    /\ fileData' = <<>>
    /\ appendedOK' = <<>>
    /\ storeAtAppend' = <<>>
    /\ removeErrno' = IF fileExists THEN "0" ELSE "ENOENT"
    /\ removeLogged' = RemoveLogs(IF fileExists THEN 0 ELSE -1, removeErrno')
    /\ Goto("done")
    /\ UNCHANGED <<exit_requested, handlers, ret, server_fd, client_fd,
                   inflight, peerClosed, packet_buf, start, i, written, fpos,
                   buf, sent_total, faults, conns, sentBytes, sentNL,
                   received, resp, echoes, storeAtAccept, appendFailed,
                   echoFailed, closeReason, prevReceived, clientCloses,
                   serverCloses, failedSetup, sfcCalls, flagAtAccept,
                   submitted, tpc, mutex, thread_complete_success, tops>>

\* Lines 314-316: remove fails for another reason; the file stays.
main_remove_fails ==
    /\ pc = "remove"
    /\ fileExists
    /\ MayFail
    /\ faults' = faults + 1
    /\ removeErrno' = "EACCES"
    /\ removeLogged' = RemoveLogs(-1, removeErrno')
    /\ Goto("done")
    /\ UNCHANGED <<exit_requested, handlers, ret, server_fd, client_fd,
                   fileExists, fileData, inflight, peerClosed, packet_buf,
                   start, i, written, fpos, buf, sent_total, conns, sentBytes,
                   sentNL, received, resp, echoes, storeAtAccept,
                   storeAtAppend, appendedOK, appendFailed, echoFailed,
                   closeReason, prevReceived, clientCloses, serverCloses,
                   failedSetup, sfcCalls, flagAtAccept, submitted, tpc, mutex,
                   thread_complete_success, tops>>

(***************************************************************************)
(* handle_client (lines 128-203).                                          *)
(***************************************************************************)
\* Mutant of PacketLen: the newline is left out of the record.
PacketLen_NoNewline(idx, st) == idx - st

\* Mutant of PacketLen: the record runs to the end of the buffer.
PacketLen_ToEnd(idx, st) == Len(packet_buf) - st

\* Line 170: packet_len = i - start + 1, the newline included.
PacketLen(idx, st) == idx - st + 1

\* The record handed to append_to_file: packet_buf + start, packet_len.
Record == Span(packet_buf, start, PacketLen(i, start))

\* Lines 168-169: the first index k >= from with p[k] == '\n', or the size
\* of p when the for loop runs to its end.
NextNL(p, from) ==
    LET at == {k \in from..(Len(p) - 1) : p[k + 1] = NL}
    IN  IF at = {} THEN Len(p) ELSE CHOOSE k \in at : \A m \in at : k <= m

\* Mutant of Compact: the leftover partial packet is dropped with the rest.
Compact_DroppingLeftover(p, st) ==
    IF st > 0 /\ st <= Len(p) THEN <<>> ELSE p

\* Lines 190-199: packet_buf after the first st bytes are dropped.
Compact(p, st) ==
    IF st > 0 /\ st <= Len(p) THEN Span(p, st, Len(p) - st) ELSE p

\* handle_client with a loop that receives before it tests the flag.
hc_loop_test_NotTesting ==
    /\ pc = "hc_loop"
    /\ Goto("recv")
    /\ UNCHANGED <<exit_requested, handlers, ret, server_fd, client_fd,
                   fileExists, fileData, inflight, peerClosed, packet_buf,
                   start, i, written, fpos, buf, sent_total, faults, conns,
                   sentBytes, sentNL, received, resp, echoes, storeAtAccept,
                   storeAtAppend, appendedOK, appendFailed, echoFailed,
                   closeReason, prevReceived, clientCloses, serverCloses,
                   failedSetup, sfcCalls, flagAtAccept, removeErrno,
                   removeLogged, submitted, tpc, mutex,
                   thread_complete_success, tops>>

\* Line 135: while (!exit_requested).
hc_loop_test ==
    /\ pc = "hc_loop"
    /\ IF exit_requested
       THEN Goto("hc_return") /\ closeReason' = "shutdown"
       ELSE Goto("recv") /\ UNCHANGED closeReason
    /\ UNCHANGED <<exit_requested, handlers, ret, server_fd, client_fd,
                   fileExists, fileData, inflight, peerClosed, packet_buf,
                   start, i, written, fpos, buf, sent_total, faults, conns,
                   sentBytes, sentNL, received, resp, echoes, storeAtAccept,
                   storeAtAppend, appendedOK, appendFailed, echoFailed,
                   prevReceived, clientCloses, serverCloses, failedSetup,
                   sfcCalls, flagAtAccept, removeErrno, removeLogged,
                   submitted, tpc, mutex, thread_complete_success, tops>>

\* Lines 136 and 153-167, bytes > 0: recv returns what has arrived, up to
\* the size of recv_buf; the chunk is appended to packet_buf.
hc_recv ==
    /\ pc = "recv"
    /\ inflight # <<>>
    /\ LET bytes == Min(RecvBufSize, Len(inflight))
       IN  /\ inflight' = SubSeq(inflight, bytes + 1, Len(inflight))
           /\ received' = received \o SubSeq(inflight, 1, bytes)
           /\ packet_buf' = packet_buf \o SubSeq(inflight, 1, bytes)
    /\ start' = 0
    /\ i' = 0
    /\ Goto("scan")
    /\ UNCHANGED <<exit_requested, handlers, ret, server_fd, client_fd,
                   fileExists, fileData, peerClosed, written, fpos, buf,
                   sent_total, faults, conns, sentBytes, sentNL, resp, echoes,
                   storeAtAccept, storeAtAppend, appendedOK, appendFailed,
                   echoFailed, closeReason, prevReceived, clientCloses,
                   serverCloses, failedSetup, sfcCalls, flagAtAccept,
                   removeErrno, removeLogged, submitted, tpc, mutex,
                   thread_complete_success, tops>>

\* Lines 136 and 154-161: recv returns data but realloc fails; the buffer is
\* freed and the loop ends.
hc_recv_nomem ==
    /\ pc = "recv"
    /\ inflight # <<>>
    /\ MayFail
    /\ faults' = faults + 1
    /\ LET bytes == Min(RecvBufSize, Len(inflight))
       IN  /\ inflight' = SubSeq(inflight, bytes + 1, Len(inflight))
           /\ received' = received \o SubSeq(inflight, 1, bytes)
    /\ packet_buf' = <<>>
    /\ closeReason' = "nomem"
    /\ Goto("hc_return")
    /\ UNCHANGED <<exit_requested, handlers, ret, server_fd, client_fd,
                   fileExists, fileData, peerClosed, start, i, written, fpos,
                   buf, sent_total, conns, sentBytes, sentNL, resp, echoes,
                   storeAtAccept, storeAtAppend, appendedOK, appendFailed,
                   echoFailed, prevReceived, clientCloses, serverCloses,
                   failedSetup, sfcCalls, flagAtAccept, removeErrno,
                   removeLogged, submitted, tpc, mutex,
                   thread_complete_success, tops>>

\* Mutant of hc_recv_eof: what is left in packet_buf is written to the file
\* when the client closes.
hc_recv_eof_Flushing ==
    /\ pc = "recv"
    /\ inflight = <<>>
    /\ peerClosed
    /\ closeReason' = "eof"
    /\ fileData' = fileData \o packet_buf
    /\ fileExists' = (fileExists \/ packet_buf # <<>>)
    /\ Goto("hc_return")
    /\ UNCHANGED <<exit_requested, handlers, ret, server_fd, client_fd,
                   inflight, peerClosed, packet_buf, start, i, written, fpos,
                   buf, sent_total, faults, conns, sentBytes, sentNL,
                   received, resp, echoes, storeAtAccept, storeAtAppend,
                   appendedOK, appendFailed, echoFailed, prevReceived,
                   clientCloses, serverCloses, failedSetup, sfcCalls,
                   flagAtAccept, removeErrno, removeLogged, submitted, tpc,
                   mutex, thread_complete_success, tops>>

\* Lines 148-151: recv returns 0, the client closed the connection.
hc_recv_eof ==
    /\ pc = "recv"
    /\ inflight = <<>>
    /\ peerClosed
    /\ closeReason' = "eof"
    /\ Goto("hc_return")
    /\ UNCHANGED <<exit_requested, handlers, ret, server_fd, client_fd,
                   fileExists, fileData, inflight, peerClosed, packet_buf,
                   start, i, written, fpos, buf, sent_total, faults, conns,
                   sentBytes, sentNL, received, resp, echoes, storeAtAccept,
                   storeAtAppend, appendedOK, appendFailed, echoFailed,
                   prevReceived, clientCloses, serverCloses, failedSetup,
                   sfcCalls, flagAtAccept, removeErrno, removeLogged,
                   submitted, tpc, mutex, thread_complete_success, tops>>

\* Lines 137-145: recv returned -1 with errno = EINTR while the flag was f.
recv_EINTR(f) ==
    /\ pc' = IF f THEN "hc_return" ELSE "hc_loop"
    /\ closeReason' = IF f THEN "shutdown" ELSE closeReason
    /\ UNCHANGED <<handlers, ret, server_fd, client_fd, fileExists, fileData,
                   inflight, peerClosed, packet_buf, start, i, written, fpos,
                   buf, sent_total, conns, sentBytes, sentNL, received, resp,
                   echoes, storeAtAccept, storeAtAppend, appendedOK,
                   appendFailed, echoFailed, prevReceived, clientCloses,
                   serverCloses, failedSetup, sfcCalls, flagAtAccept,
                   removeErrno, removeLogged, submitted, tpc, mutex,
                   thread_complete_success, tops>>

hc_recv_EINTR ==
    /\ pc = "recv"
    /\ recv_EINTR(exit_requested)
    /\ UNCHANGED <<exit_requested, faults>>

\* Lines 146-147: any other recv failure ends the loop.
hc_recv_fails ==
    /\ pc = "recv"
    /\ MayFail
    /\ faults' = faults + 1
    /\ closeReason' = "error"
    /\ Goto("hc_return")
    /\ UNCHANGED <<exit_requested, handlers, ret, server_fd, client_fd,
                   fileExists, fileData, inflight, peerClosed, packet_buf,
                   start, i, written, fpos, buf, sent_total, conns, sentBytes,
                   sentNL, received, resp, echoes, storeAtAccept,
                   storeAtAppend, appendedOK, appendFailed, echoFailed,
                   prevReceived, clientCloses, serverCloses, failedSetup,
                   sfcCalls, flagAtAccept, removeErrno, removeLogged,
                   submitted, tpc, mutex, thread_complete_success, tops>>

\* Lines 189-198: the number of bytes of this connection that compaction
\* has dropped from the front of packet_buf.
Dropped == Len(received) - Len(packet_buf)

\* Lines 168-172 and 189-200: the for loop runs on to the next newline and
\* append_to_file is called with the record that ends there; or it runs to
\* the end, the first start bytes are dropped and the while loop goes on.
hc_scan ==
    /\ pc = "scan"
    /\ IF NextNL(packet_buf, i) < Len(packet_buf)
       THEN /\ i' = NextNL(packet_buf, i)
            /\ storeAtAppend' = fileData
            /\ submitted' = Append(submitted, Dropped + i' + 1)
            /\ Goto("atf_open")
            /\ UNCHANGED <<packet_buf, start>>
       ELSE /\ packet_buf' = Compact(packet_buf, start)
            /\ start' = 0
            /\ i' = 0
            /\ Goto("hc_loop")
            /\ UNCHANGED <<storeAtAppend, submitted>>
    /\ UNCHANGED <<exit_requested, handlers, ret, server_fd, client_fd,
                   fileExists, fileData, inflight, peerClosed, written, fpos,
                   buf, sent_total, faults, conns, sentBytes, sentNL,
                   received, resp, echoes, storeAtAccept, appendedOK,
                   appendFailed, echoFailed, closeReason, prevReceived,
                   clientCloses, serverCloses, failedSetup, sfcCalls,
                   flagAtAccept, removeErrno, removeLogged, tpc, mutex,
                   thread_complete_success, tops>>

\* Mutant of hc_append_failed: the break of line 176 is missing and
\* send_file_contents is called after the failed append.
hc_append_failed_Echoing ==
    /\ appendFailed' = TRUE
    /\ sfcCalls' = sfcCalls + 1
    /\ resp' = <<>>
    /\ written' = 0
    /\ pc' = "sfc_open"
    /\ UNCHANGED <<handlers, ret, server_fd, client_fd, inflight, peerClosed,
                   packet_buf, start, i, fpos, buf, sent_total, conns,
                   sentBytes, sentNL, received, echoes, storeAtAccept,
                   storeAtAppend, appendedOK, echoFailed, closeReason,
                   prevReceived, clientCloses, serverCloses, failedSetup,
                   flagAtAccept, removeErrno, removeLogged, submitted, tpc,
                   mutex, thread_complete_success, tops>>

\* Lines 172-177 and 189-200: append_to_file returned -1: start = i + 1;
\* break; the first start bytes are dropped and the while loop goes on.
hc_append_failed ==
    /\ appendFailed' = TRUE
    /\ packet_buf' = Compact(packet_buf, i + 1)
    /\ start' = 0
    /\ i' = 0
    /\ written' = 0
    /\ pc' = "hc_loop"
    /\ UNCHANGED <<handlers, ret, server_fd, client_fd, inflight, peerClosed,
                   fpos, buf, sent_total, conns, sentBytes, sentNL, received,
                   resp, echoes, storeAtAccept, storeAtAppend, appendedOK,
                   echoFailed, closeReason, prevReceived, clientCloses,
                   serverCloses, failedSetup, sfcCalls, flagAtAccept,
                   removeErrno, removeLogged, submitted, tpc, mutex,
                   thread_complete_success, tops>>

\* Mutant of hc_echo_failed: start = i + 1 of line 181 is missing, and the
\* record that was appended stays in packet_buf.
hc_echo_failed_KeepingRecord ==
    /\ echoFailed' = TRUE
    /\ packet_buf' = Compact(packet_buf, start)
    /\ start' = 0
    /\ i' = 0
    /\ fpos' = 0
    /\ buf' = <<>>
    /\ sent_total' = 0
    /\ resp' = <<>>
    /\ pc' = "hc_loop"
    /\ UNCHANGED <<handlers, ret, server_fd, client_fd, fileExists, fileData,
                   inflight, peerClosed, written, conns, sentBytes, sentNL,
                   received, echoes, storeAtAccept, storeAtAppend, appendedOK,
                   appendFailed, closeReason, prevReceived, clientCloses,
                   serverCloses, failedSetup, sfcCalls, flagAtAccept,
                   removeErrno, removeLogged, submitted, tpc, mutex,
                   thread_complete_success, tops>>

\* Lines 179-183 and 189-200: send_file_contents returned -1: start = i + 1;
\* break; the first start bytes are dropped and the while loop goes on.
hc_echo_failed ==
    /\ echoFailed' = TRUE
    /\ packet_buf' = Compact(packet_buf, i + 1)
    /\ start' = 0
    /\ i' = 0
    /\ fpos' = 0
    /\ buf' = <<>>
    /\ sent_total' = 0
    /\ resp' = <<>>
    /\ pc' = "hc_loop"
    /\ UNCHANGED <<handlers, ret, server_fd, client_fd, fileExists, fileData,
                   inflight, peerClosed, written, conns, sentBytes, sentNL,
                   received, echoes, storeAtAccept, storeAtAppend, appendedOK,
                   appendFailed, closeReason, prevReceived, clientCloses,
                   serverCloses, failedSetup, sfcCalls, flagAtAccept,
                   removeErrno, removeLogged, submitted, tpc, mutex,
                   thread_complete_success, tops>>

\* Lines 202-203: free(packet_buf) and return to main (line 295).  The
\* history of the connection ends here.
hc_return ==
    /\ pc = "hc_return"
    /\ packet_buf' = <<>>
    /\ prevReceived' = received
    /\ received' = <<>>
    /\ resp' = <<>>
    /\ echoes' = 0
    /\ appendFailed' = FALSE
    /\ echoFailed' = FALSE
    /\ closeReason' = "none"
    /\ sfcCalls' = 0
    /\ submitted' = <<>>
    /\ Goto("close_client")
    /\ UNCHANGED <<exit_requested, handlers, ret, server_fd, client_fd,
                   fileExists, fileData, inflight, peerClosed, start, i,
                   written, fpos, buf, sent_total, faults, conns, sentBytes,
                   sentNL, storeAtAccept, storeAtAppend, appendedOK,
                   clientCloses, serverCloses, failedSetup, flagAtAccept,
                   removeErrno, removeLogged, tpc, mutex,
                   thread_complete_success, tops>>

(***************************************************************************)
(* append_to_file(packet_buf + start, packet_len) (lines 46-74).           *)
(***************************************************************************)
\* Mutant of OpenAppend: the file is opened with O_TRUNC.
OpenAppend_Truncating(data) == <<>>

\* Line 48: O_APPEND keeps what the file holds; O_CREAT creates it empty.
OpenAppend(data) == data

\* Lines 48 and 54-55: open succeeds.
atf_open ==
    /\ pc = "atf_open"
    /\ fileExists' = TRUE
    /\ fileData' = OpenAppend(fileData)
    /\ written' = 0
    /\ IF 0 < PacketLen(i, start) THEN Goto("atf_write") ELSE Goto("atf_close")
    /\ UNCHANGED <<exit_requested, handlers, ret, server_fd, client_fd,
                   inflight, peerClosed, packet_buf, start, i, fpos, buf,
                   sent_total, faults, conns, sentBytes, sentNL, received,
                   resp, echoes, storeAtAccept, storeAtAppend, appendedOK,
                   appendFailed, echoFailed, closeReason, prevReceived,
                   clientCloses, serverCloses, failedSetup, sfcCalls,
                   flagAtAccept, removeErrno, removeLogged, submitted, tpc,
                   mutex, thread_complete_success, tops>>

\* Lines 49-52: open fails.
atf_open_fails ==
    /\ pc = "atf_open"
    /\ MayFail
    /\ faults' = faults + 1
    /\ hc_append_failed
    /\ UNCHANGED <<exit_requested, fileExists, fileData>>

\* Mutant of atf_write: the loop of line 55 is missing, a short write is
\* taken for a complete one.
atf_write_Once(w) ==
    /\ pc = "atf_write"
    /\ w \in 0..(PacketLen(i, start) - written)
    /\ fileData' = fileData \o Span(packet_buf, start + written, w)
    /\ written' = written + w
    /\ Goto("atf_close")
    /\ UNCHANGED <<exit_requested, handlers, ret, server_fd, client_fd,
                   fileExists, inflight, peerClosed, packet_buf, start, i,
                   fpos, buf, sent_total, faults, conns, sentBytes, sentNL,
                   received, resp, echoes, storeAtAccept, storeAtAppend,
                   appendedOK, appendFailed, echoFailed, closeReason,
                   prevReceived, clientCloses, serverCloses, failedSetup,
                   sfcCalls, flagAtAccept, removeErrno, removeLogged,
                   submitted, tpc, mutex, thread_complete_success, tops>>

\* Lines 55-56 and 65: write transfers w of the len - written bytes left
\* (w = 0: nothing is transferred and the loop calls write again).
atf_write(w) ==
    /\ pc = "atf_write"
    /\ w \in 0..(PacketLen(i, start) - written)
    /\ fileData' = fileData \o Span(packet_buf, start + written, w)
    /\ written' = written + w
    /\ IF written + w < PacketLen(i, start)
       THEN Goto("atf_write")
       ELSE Goto("atf_close")
    /\ UNCHANGED <<exit_requested, handlers, ret, server_fd, client_fd,
                   fileExists, inflight, peerClosed, packet_buf, start, i,
                   fpos, buf, sent_total, faults, conns, sentBytes, sentNL,
                   received, resp, echoes, storeAtAccept, storeAtAppend,
                   appendedOK, appendFailed, echoFailed, closeReason,
                   prevReceived, clientCloses, serverCloses, failedSetup,
                   sfcCalls, flagAtAccept, removeErrno, removeLogged,
                   submitted, tpc, mutex, thread_complete_success, tops>>

\* Lines 57-60: write returned -1 with errno = EINTR while the flag was f.
write_EINTR(f) ==
    /\ pc' = "atf_write"
    /\ UNCHANGED <<handlers, ret, server_fd, client_fd, fileExists, fileData,
                   inflight, peerClosed, packet_buf, start, i, written, fpos,
                   buf, sent_total, conns, sentBytes, sentNL, received, resp,
                   echoes, storeAtAccept, storeAtAppend, appendedOK,
                   appendFailed, echoFailed, closeReason, prevReceived,
                   clientCloses, serverCloses, failedSetup, sfcCalls,
                   flagAtAccept, removeErrno, removeLogged, submitted, tpc,
                   mutex, thread_complete_success, tops>>

atf_write_EINTR ==
    /\ pc = "atf_write"
    /\ write_EINTR(exit_requested)
    /\ UNCHANGED <<exit_requested, faults>>

\* Lines 61-63: write fails; what earlier writes transferred stays.
atf_write_fails ==
    /\ pc = "atf_write"
    /\ MayFail
    /\ faults' = faults + 1
    /\ hc_append_failed
    /\ UNCHANGED <<exit_requested, fileExists, fileData>>

\* Lines 68 and 73, then 179: close succeeds, append_to_file returns 0 and
\* send_file_contents is called.
atf_close ==
    /\ pc = "atf_close"
    /\ appendedOK' = Append(appendedOK, Record)
    /\ echoes' = echoes + 1
    /\ sfcCalls' = sfcCalls + 1
    /\ resp' = <<>>
    /\ written' = 0
    /\ Goto("sfc_open")
    /\ UNCHANGED <<exit_requested, handlers, ret, server_fd, client_fd,
                   fileExists, fileData, inflight, peerClosed, packet_buf,
                   start, i, fpos, buf, sent_total, faults, conns, sentBytes,
                   sentNL, received, storeAtAccept, storeAtAppend,
                   appendFailed, echoFailed, closeReason, prevReceived,
                   clientCloses, serverCloses, failedSetup, flagAtAccept,
                   removeErrno, removeLogged, submitted, tpc, mutex,
                   thread_complete_success, tops>>

\* Lines 68-71: close fails; the bytes written stay.
atf_close_fails ==
    /\ pc = "atf_close"
    /\ MayFail
    /\ faults' = faults + 1
    /\ hc_append_failed
    /\ UNCHANGED <<exit_requested, fileExists, fileData>>

(***************************************************************************)
(* send_file_contents(client_fd) (lines 80-119).                           *)
(***************************************************************************)
\* Mutant of SendSpan: send is given buf, not buf + sent_total.
SendSpan_FromStart(b, st, s) == Span(b, 0, s)

\* Line 94: the bytes send is given: buf + sent_total, s of them sent.
SendSpan(b, st, s) == Span(b, st, s)

\* Line 82: open for reading succeeds.
sfc_open ==
    /\ pc = "sfc_open"
    /\ fileExists
    /\ fpos' = 0
    /\ Goto("sfc_read")
    /\ UNCHANGED <<exit_requested, handlers, ret, server_fd, client_fd,
                   fileExists, fileData, inflight, peerClosed, packet_buf,
                   start, i, written, buf, sent_total, faults, conns,
                   sentBytes, sentNL, received, resp, echoes, storeAtAccept,
                   storeAtAppend, appendedOK, appendFailed, echoFailed,
                   closeReason, prevReceived, clientCloses, serverCloses,
                   failedSetup, sfcCalls, flagAtAccept, removeErrno,
                   removeLogged, submitted, tpc, mutex,
                   thread_complete_success, tops>>

\* Lines 83-86: open fails.
sfc_open_fails ==
    /\ pc = "sfc_open"
    /\ MayFail
    /\ faults' = faults + 1
    /\ hc_echo_failed
    /\ UNCHANGED exit_requested

\* Lines 91-92: read returns the next chunk of the file, or 0 at its end.
sfc_read ==
    /\ pc = "sfc_read"
    /\ LET bytes == Min(FileBufSize, Len(fileData) - fpos)
       IN  IF bytes > 0
           THEN /\ buf' = Span(fileData, fpos, bytes)
                /\ fpos' = fpos + bytes
                /\ sent_total' = 0
                /\ Goto("sfc_send")
           ELSE /\ buf' = <<>>
                /\ UNCHANGED <<fpos, sent_total>>
                /\ Goto("sfc_close")
    /\ UNCHANGED <<exit_requested, handlers, ret, server_fd, client_fd,
                   fileExists, fileData, inflight, peerClosed, packet_buf,
                   start, i, written, faults, conns, sentBytes, sentNL,
                   received, resp, echoes, storeAtAccept, storeAtAppend,
                   appendedOK, appendFailed, echoFailed, closeReason,
                   prevReceived, clientCloses, serverCloses, failedSetup,
                   sfcCalls, flagAtAccept, removeErrno, removeLogged,
                   submitted, tpc, mutex, thread_complete_success, tops>>

\* Lines 91 and 107-111: read returned -1 with errno = EINTR while the flag
\* was f: the loop ends with bytes < 0 and the function returns -1.
read_EINTR(f) ==
    hc_echo_failed

sfc_read_EINTR ==
    /\ pc = "sfc_read"
    /\ MayFail
    /\ faults' = faults + 1
    /\ read_EINTR(exit_requested)
    /\ UNCHANGED exit_requested

\* Lines 107-111: read fails for another reason.
sfc_read_fails ==
    /\ pc = "sfc_read"
    /\ MayFail
    /\ faults' = faults + 1
    /\ hc_echo_failed
    /\ UNCHANGED exit_requested

\* Lines 93-94 and 103: send transfers s of the bytes - sent_total left.
sfc_send(s) ==
    /\ pc = "sfc_send"
    /\ s \in 1..(Len(buf) - sent_total)
    /\ resp' = resp \o SendSpan(buf, sent_total, s)
    /\ sent_total' = sent_total + s
    /\ IF sent_total + s < Len(buf)
       THEN Goto("sfc_send")
       ELSE Goto("sfc_read")
    /\ UNCHANGED <<exit_requested, handlers, ret, server_fd, client_fd,
                   fileExists, fileData, inflight, peerClosed, packet_buf,
                   start, i, written, fpos, buf, faults, conns, sentBytes,
                   sentNL, received, echoes, storeAtAccept, storeAtAppend,
                   appendedOK, appendFailed, echoFailed, closeReason,
                   prevReceived, clientCloses, serverCloses, failedSetup,
                   sfcCalls, flagAtAccept, removeErrno, removeLogged,
                   submitted, tpc, mutex, thread_complete_success, tops>>

\* Lines 95-98: send returned -1 with errno = EINTR while the flag was f.
send_EINTR(f) ==
    /\ pc' = "sfc_send"
    /\ UNCHANGED <<handlers, ret, server_fd, client_fd, fileExists, fileData,
                   inflight, peerClosed, packet_buf, start, i, written, fpos,
                   buf, sent_total, conns, sentBytes, sentNL, received, resp,
                   echoes, storeAtAccept, storeAtAppend, appendedOK,
                   appendFailed, echoFailed, closeReason, prevReceived,
                   clientCloses, serverCloses, failedSetup, sfcCalls,
                   flagAtAccept, removeErrno, removeLogged, submitted, tpc,
                   mutex, thread_complete_success, tops>>

sfc_send_EINTR ==
    /\ pc = "sfc_send"
    /\ send_EINTR(exit_requested)
    /\ UNCHANGED <<exit_requested, faults>>

\* Lines 99-101: send fails for another reason.
sfc_send_fails ==
    /\ pc = "sfc_send"
    /\ MayFail
    /\ faults' = faults + 1
    /\ hc_echo_failed
    /\ UNCHANGED exit_requested

\* Lines 113 and 118, then 185 and the i++ of line 168: close succeeds,
\* send_file_contents returns 0 and the scan goes on after the newline.
sfc_close ==
    /\ pc = "sfc_close"
    /\ start' = i + 1
    /\ i' = i + 1
    /\ fpos' = 0
    /\ buf' = <<>>
    /\ sent_total' = 0
    /\ resp' = <<>>
    /\ Goto("scan")
    /\ UNCHANGED <<exit_requested, handlers, ret, server_fd, client_fd,
                   fileExists, fileData, inflight, peerClosed, packet_buf,
                   written, faults, conns, sentBytes, sentNL, received,
                   echoes, storeAtAccept, storeAtAppend, appendedOK,
                   appendFailed, echoFailed, closeReason, prevReceived,
                   clientCloses, serverCloses, failedSetup, sfcCalls,
                   flagAtAccept, removeErrno, removeLogged, submitted, tpc,
                   mutex, thread_complete_success, tops>>

\* Lines 113-116: close fails.
sfc_close_fails ==
    /\ pc = "sfc_close"
    /\ MayFail
    /\ faults' = faults + 1
    /\ hc_echo_failed
    /\ UNCHANGED exit_requested

(***************************************************************************)
(* Environment: signals and the client.                                    *)
(***************************************************************************)
\* Mutant of signal_handler: the handler flips the flag.
signal_handler_Toggling(signo) ==
    exit_requested' = IF signo = SIGINT \/ signo = SIGTERM
                      THEN ~exit_requested
                      ELSE exit_requested

\* Lines 35-40.
signal_handler(signo) ==
    exit_requested' = IF signo = SIGINT \/ signo = SIGTERM
                      THEN TRUE
                      ELSE exit_requested

\* The calls a signal can interrupt.
BlockingCalls == {"accept", "recv", "atf_write", "sfc_read", "sfc_send"}

\* A signal whose disposition is the handler is delivered between two steps
\* of the process: the handler runs and the process goes on where it was.
\* At "accept" and "recv" this is the delivery after the loop test and
\* before the call blocks.
Deliver(signo) ==
    /\ signo \in handlers
    /\ pc # "done"
    /\ signal_handler(signo)
    /\ UNCHANGED <<pc, handlers, ret, server_fd, client_fd, fileExists,
                   fileData, inflight, peerClosed, packet_buf, start, i,
                   written, fpos, buf, sent_total, faults, conns, sentBytes,
                   sentNL, received, resp, echoes, storeAtAccept,
                   storeAtAppend, appendedOK, appendFailed, echoFailed,
                   closeReason, prevReceived, clientCloses, serverCloses,
                   failedSetup, sfcCalls, flagAtAccept, removeErrno,
                   removeLogged, submitted, tpc, mutex,
                   thread_complete_success, tops>>

\* The signal is delivered while the process is inside a blocking call: the
\* handler runs and the call returns -1 with errno = EINTR (the handlers
\* are installed without SA_RESTART, lines 214-217).
DeliverInCall(signo) ==
    /\ signo \in handlers
    /\ pc \in BlockingCalls
    /\ signal_handler(signo)
    /\ UNCHANGED faults
    /\ CASE pc = "accept" -> accept_EINTR(exit_requested')
         [] pc = "recv" -> recv_EINTR(exit_requested')
         [] pc = "atf_write" -> write_EINTR(exit_requested')
         [] pc = "sfc_read" -> read_EINTR(exit_requested')
         [] pc = "sfc_send" -> send_EINTR(exit_requested')

\* The client of the open connection sends one more byte.  The server looks
\* at the stream only in recv, so the byte is made to arrive there.
ClientSend(b) ==
    /\ pc = "recv"
    /\ ~peerClosed
    /\ sentBytes < MaxBytes
    /\ b \in {NL, Payload(sentNL)}
    /\ inflight' = Append(inflight, b)
    /\ sentBytes' = sentBytes + 1
    /\ sentNL' = IF b = NL THEN sentNL + 1 ELSE sentNL
    /\ UNCHANGED <<pc, exit_requested, handlers, ret, server_fd, client_fd,
                   fileExists, fileData, peerClosed, packet_buf, start, i,
                   written, fpos, buf, sent_total, faults, conns, received,
                   resp, echoes, storeAtAccept, storeAtAppend, appendedOK,
                   appendFailed, echoFailed, closeReason, prevReceived,
                   clientCloses, serverCloses, failedSetup, sfcCalls,
                   flagAtAccept, removeErrno, removeLogged, submitted, tpc,
                   mutex, thread_complete_success, tops>>

\* The client closes its end of the connection.
ClientClose ==
    /\ pc = "recv"
    /\ ~peerClosed
    /\ peerClosed' = TRUE
    /\ UNCHANGED <<pc, exit_requested, handlers, ret, server_fd, client_fd,
                   fileExists, fileData, inflight, packet_buf, start, i,
                   written, fpos, buf, sent_total, faults, conns, sentBytes,
                   sentNL, received, resp, echoes, storeAtAccept,
                   storeAtAppend, appendedOK, appendFailed, echoFailed,
                   closeReason, prevReceived, clientCloses, serverCloses,
                   failedSetup, sfcCalls, flagAtAccept, removeErrno,
                   removeLogged, submitted, tpc, mutex,
                   thread_complete_success, tops>>

(***************************************************************************)
(* The process, the environment and the specifications.                    *)
(***************************************************************************)
\* Steps the process takes whenever it can: calls that succeed or return.
Progress ==
    \/ main_sigaction_SIGINT
    \/ main_sigaction_SIGTERM
    \/ main_socket
    \/ main_setsockopt
    \/ main_bind
    \/ main_listen
    \/ main_loop_test
    \/ main_close_client
    \/ main_cleanup_close
    \/ main_remove
    \/ hc_loop_test
    \/ hc_recv
    \/ hc_recv_eof
    \/ hc_scan
    \/ hc_return
    \/ atf_open
    \/ \E w \in 0..(MaxBytes + 1) : atf_write(w)
    \/ atf_close
    \/ sfc_open
    \/ sfc_read
    \/ \E s \in 1..(FileBufSize + 1) : sfc_send(s)
    \/ sfc_close

\* Calls that fail or are interrupted: up to the environment.
Failure ==
    \/ main_sigaction_SIGINT_fails
    \/ main_sigaction_SIGTERM_fails
    \/ main_socket_fails
    \/ main_setsockopt_fails
    \/ main_bind_fails
    \/ main_listen_fails
    \/ main_accept_EINTR
    \/ main_accept_fails
    \/ main_remove_fails
    \/ hc_recv_nomem
    \/ hc_recv_EINTR
    \/ hc_recv_fails
    \/ atf_open_fails
    \/ atf_write_EINTR
    \/ atf_write_fails
    \/ atf_close_fails
    \/ sfc_open_fails
    \/ sfc_read_EINTR
    \/ sfc_read_fails
    \/ sfc_send_EINTR
    \/ sfc_send_fails
    \/ sfc_close_fails

Environment ==
    \/ main_accept
    \/ \E signo \in Signals : Deliver(signo)
    \/ \E signo \in Signals : DeliverInCall(signo)
    \/ \E b \in {"a", "b", NL} : ClientSend(b)
    \/ ClientClose

Next == Progress \/ Failure \/ Environment

Spec == Init /\ [][Next]_vars

\* The process is scheduled: a step it can take is eventually taken.  The
\* client, the signals and failing calls are under no obligation.
FairSpec == Spec /\ WF_vars(Progress)


(***************************************************************************)
(* examples/threading/threading.c: start_thread_obtaining_mutex (lines     *)
(* 77-110) and threadfunc (lines 33-66).  Every thread is given the same   *)
(* mutex.  The server does not take part: its variables stay as they are.  *)
(***************************************************************************)
Threads == 1..NumThreads

\* The thread has been created and has not returned.
Running(t) == tpc[t] \in {"sleep_obtain", "lock", "sleep_release", "unlock"}

\* Lines 82-109: the arguments are valid, malloc and pthread_create
\* succeed; the new thread starts in threadfunc (lines 35-43).
start_thread_obtaining_mutex(t) ==
    /\ tpc[t] = "unstarted"
    /\ thread_complete_success' =
           [thread_complete_success EXCEPT ![t] = FALSE]
    /\ tpc' = [tpc EXCEPT ![t] = "sleep_obtain"]
    /\ UNCHANGED <<pc, exit_requested, handlers, ret, server_fd, client_fd,
                   fileExists, fileData, inflight, peerClosed, packet_buf,
                   start, i, written, fpos, buf, sent_total, faults, conns,
                   sentBytes, sentNL, received, resp, echoes, storeAtAccept,
                   storeAtAppend, appendedOK, appendFailed, echoFailed,
                   closeReason, prevReceived, clientCloses, serverCloses,
                   failedSetup, sfcCalls, flagAtAccept, removeErrno,
                   removeLogged, submitted, mutex, tops>>

\* Lines 82-89 and 96-100: an argument is NULL, or malloc or pthread_create
\* fails; no thread is created and false is returned.
start_thread_fails(t) ==
    /\ tpc[t] = "unstarted"
    /\ MayFail
    /\ faults' = faults + 1
    /\ tpc' = [tpc EXCEPT ![t] = "not_created"]
    /\ UNCHANGED <<pc, exit_requested, handlers, ret, server_fd, client_fd,
                   fileExists, fileData, inflight, peerClosed, packet_buf,
                   start, i, written, fpos, buf, sent_total, conns, sentBytes,
                   sentNL, received, resp, echoes, storeAtAccept,
                   storeAtAppend, appendedOK, appendFailed, echoFailed,
                   closeReason, prevReceived, clientCloses, serverCloses,
                   failedSetup, sfcCalls, flagAtAccept, removeErrno,
                   removeLogged, submitted, mutex, thread_complete_success,
                   tops>>

\* Line 46: usleep(wait_to_obtain_ms * 1000) returns.
threadfunc_sleep_obtain(t) ==
    /\ tpc[t] = "sleep_obtain"
    /\ tops' = [tops EXCEPT ![t] = Append(@, "usleep")]
    /\ tpc' = [tpc EXCEPT ![t] = "lock"]
    /\ UNCHANGED <<pc, exit_requested, handlers, ret, server_fd, client_fd,
                   fileExists, fileData, inflight, peerClosed, packet_buf,
                   start, i, written, fpos, buf, sent_total, faults, conns,
                   sentBytes, sentNL, received, resp, echoes, storeAtAccept,
                   storeAtAppend, appendedOK, appendFailed, echoFailed,
                   closeReason, prevReceived, clientCloses, serverCloses,
                   failedSetup, sfcCalls, flagAtAccept, removeErrno,
                   removeLogged, submitted, mutex, thread_complete_success>>

\* Line 49: pthread_mutex_lock returns 0; it returns once the mutex is free
\* and the caller holds it.
threadfunc_lock(t) ==
    /\ tpc[t] = "lock"
    /\ mutex = 0
    /\ mutex' = t
    /\ tops' = [tops EXCEPT ![t] = Append(@, "lock")]
    /\ tpc' = [tpc EXCEPT ![t] = "sleep_release"]
    /\ UNCHANGED <<pc, exit_requested, handlers, ret, server_fd, client_fd,
                   fileExists, fileData, inflight, peerClosed, packet_buf,
                   start, i, written, fpos, buf, sent_total, faults, conns,
                   sentBytes, sentNL, received, resp, echoes, storeAtAccept,
                   storeAtAppend, appendedOK, appendFailed, echoFailed,
                   closeReason, prevReceived, clientCloses, serverCloses,
                   failedSetup, sfcCalls, flagAtAccept, removeErrno,
                   removeLogged, submitted, thread_complete_success>>

\* Lines 49-51: pthread_mutex_lock returns an error; the thread returns
\* data with thread_complete_success false.
threadfunc_lock_fails(t) ==
    /\ tpc[t] = "lock"
    /\ MayFail
    /\ faults' = faults + 1
    /\ tops' = [tops EXCEPT ![t] = Append(@, "lock_failed")]
    /\ tpc' = [tpc EXCEPT ![t] = "returned"]
    /\ UNCHANGED <<pc, exit_requested, handlers, ret, server_fd, client_fd,
                   fileExists, fileData, inflight, peerClosed, packet_buf,
                   start, i, written, fpos, buf, sent_total, conns, sentBytes,
                   sentNL, received, resp, echoes, storeAtAccept,
                   storeAtAppend, appendedOK, appendFailed, echoFailed,
                   closeReason, prevReceived, clientCloses, serverCloses,
                   failedSetup, sfcCalls, flagAtAccept, removeErrno,
                   removeLogged, submitted, mutex, thread_complete_success>>

\* Line 54: usleep(wait_to_release_ms * 1000) returns.
threadfunc_sleep_release(t) ==
    /\ tpc[t] = "sleep_release"
    /\ tops' = [tops EXCEPT ![t] = Append(@, "usleep")]
    /\ tpc' = [tpc EXCEPT ![t] = "unlock"]
    /\ UNCHANGED <<pc, exit_requested, handlers, ret, server_fd, client_fd,
                   fileExists, fileData, inflight, peerClosed, packet_buf,
                   start, i, written, fpos, buf, sent_total, faults, conns,
                   sentBytes, sentNL, received, resp, echoes, storeAtAccept,
                   storeAtAppend, appendedOK, appendFailed, echoFailed,
                   closeReason, prevReceived, clientCloses, serverCloses,
                   failedSetup, sfcCalls, flagAtAccept, removeErrno,
                   removeLogged, submitted, mutex, thread_complete_success>>

\* Lines 57 and 62-65: pthread_mutex_unlock returns 0,
\* thread_complete_success is set and the thread returns data.
threadfunc_unlock(t) ==
    /\ tpc[t] = "unlock"
    /\ mutex' = IF mutex = t THEN 0 ELSE mutex
    /\ tops' = [tops EXCEPT ![t] = Append(@, "unlock")]
    /\ thread_complete_success' =
           [thread_complete_success EXCEPT ![t] = TRUE]
    /\ tpc' = [tpc EXCEPT ![t] = "returned"]
    /\ UNCHANGED <<pc, exit_requested, handlers, ret, server_fd, client_fd,
                   fileExists, fileData, inflight, peerClosed, packet_buf,
                   start, i, written, fpos, buf, sent_total, faults, conns,
                   sentBytes, sentNL, received, resp, echoes, storeAtAccept,
                   storeAtAppend, appendedOK, appendFailed, echoFailed,
                   closeReason, prevReceived, clientCloses, serverCloses,
                   failedSetup, sfcCalls, flagAtAccept, removeErrno,
                   removeLogged, submitted>>

\* Lines 57-59: pthread_mutex_unlock returns an error, so the mutex is as
\* it was; the thread returns data with thread_complete_success false.
threadfunc_unlock_fails(t) ==
    /\ tpc[t] = "unlock"
    /\ MayFail
    /\ faults' = faults + 1
    /\ tops' = [tops EXCEPT ![t] = Append(@, "unlock_failed")]
    /\ tpc' = [tpc EXCEPT ![t] = "returned"]
    /\ UNCHANGED <<pc, exit_requested, handlers, ret, server_fd, client_fd,
                   fileExists, fileData, inflight, peerClosed, packet_buf,
                   start, i, written, fpos, buf, sent_total, conns, sentBytes,
                   sentNL, received, resp, echoes, storeAtAccept,
                   storeAtAppend, appendedOK, appendFailed, echoFailed,
                   closeReason, prevReceived, clientCloses, serverCloses,
                   failedSetup, sfcCalls, flagAtAccept, removeErrno,
                   removeLogged, submitted, mutex, thread_complete_success>>

\* The steps of thread t that the scheduler makes it take.
threadfunc(t) ==
    \/ threadfunc_sleep_obtain(t)
    \/ threadfunc_lock(t)
    \/ threadfunc_sleep_release(t)
    \/ threadfunc_unlock(t)

ThreadNext ==
    \E t \in Threads :
        \/ start_thread_obtaining_mutex(t)
        \/ start_thread_fails(t)
        \/ threadfunc(t)
        \/ threadfunc_lock_fails(t)
        \/ threadfunc_unlock_fails(t)

\* Every created thread is scheduled; calls that fail are under no
\* obligation, and neither is the caller that starts the threads.
ThreadSpec == Init /\ [][ThreadNext]_vars
                   /\ \A t \in Threads : WF_vars(threadfunc(t))
(***************************************************************************)
(* Properties.                                                             *)
(***************************************************************************)
AtfPcs == {"atf_open", "atf_write", "atf_close"}
SfcPcs == {"sfc_open", "sfc_read", "sfc_send", "sfc_close"}
\* The process is inside handle_client.
InHandler == {"hc_loop", "recv", "scan", "hc_return"} \cup AtfPcs \cup SfcPcs

\* No append_to_file and no send_file_contents of this connection failed.
ConnClean == ~appendFailed /\ ~echoFailed

\* C1: when handle_client has read a connection to its end (recv returned
\* 0) and no append or echo of the connection failed, the file holds what
\* it held when the connection was accepted followed by every complete
\* record received, in order, and none of the unterminated bytes that
\* followed the last newline; this for every way the stream was split into
\* recv chunks.
C1_StoreHoldsAllRecords ==
    (pc = "hc_return" /\ closeReason = "eof" /\ ConnClean) =>
        /\ fileData = storeAtAccept.data \o CompleteRecords(received)
        /\ fileExists = (storeAtAccept.exists \/ NumNL(received) > 0)

\* A connection read to its end that sent two records and then bytes
\* without a newline.
C1_Witness ==
    /\ pc = "hc_return"
    /\ closeReason = "eof"
    /\ ConnClean
    /\ NumNL(received) >= 2
    /\ Unterminated(received) # <<>>

\* C2: during an echo the file is what it was when the record's append
\* began plus that record; the bytes sent so far are the bytes of the file
\* read so far minus the part of buf not sent yet; and when the file has
\* been read to its end the bytes sent are the whole file.  A client that
\* sends "a\n" to an absent store receives exactly "a\n".
C2_ResponseEqualsStore ==
    /\ pc \in SfcPcs => fileData = storeAtAppend \o Record
    /\ pc = "sfc_read" => resp = SubSeq(fileData, 1, fpos)
    /\ pc = "sfc_send" =>
           resp = SubSeq(fileData, 1, fpos - (Len(buf) - sent_total))
    /\ pc = "sfc_close" => resp = fileData
    /\ (pc = "sfc_close" /\ ~storeAtAccept.exists
           /\ received = <<"a", NL>>) => resp = <<"a", NL>>

\* An echo of a file longer than one read chunk, in the second chunk, after
\* a short send.
C2_Witness ==
    /\ pc = "sfc_send"
    /\ Len(fileData) > FileBufSize
    /\ fpos > FileBufSize
    /\ sent_total > 0

\* C3: the file is never truncated or recreated while connections are
\* served: during a connection it starts with what it held at accept, and
\* while no call has failed it is the concatenation of every record appended
\* since the process started.  When the first connection received "a\n" and
\* the second "b\n", the second connection's response is "a\nb\n".
C3_StoreAccumulates ==
    /\ pc \in InHandler =>
           /\ IsPrefix(storeAtAccept.data, fileData)
           /\ storeAtAccept.exists => fileExists
    /\ (faults = 0 /\ pc \notin AtfPcs /\ pc # "done") =>
           fileData = Flatten(appendedOK)
    /\ (pc = "sfc_close" /\ faults = 0 /\ conns = 2
           /\ prevReceived = <<"a", NL>> /\ received = <<"b", NL>>) =>
           resp = <<"a", NL, "b", NL>>

\* The second of two connections, the first having sent "a\n", has sent
\* "b\n" and its echo has read the file to the end.
C3_Witness ==
    /\ pc = "sfc_close"
    /\ faults = 0
    /\ conns = 2
    /\ prevReceived = <<"a", NL>>
    /\ received = <<"b", NL>>

\* C4: a shutdown signal, whenever it is delivered, leads to the listening
\* socket being closed and the file being absent.
C4_ShutdownCompletes ==
    exit_requested ~> (server_fd # "open" /\ ~fileExists)

\* C5: while no append of the connection has failed, the n-th echo of a
\* connection sends the file as it was at accept followed by exactly the
\* first n records received, and the append of the record that follows
\* begins on exactly that file: echo n holds record n and not record n + 1.
\* A client that sends "a\nb\n" to an absent store gets "a\n", then
\* "a\nb\n".
C5_EchoInArrivalOrder ==
    /\ (pc = "sfc_close" /\ ~appendFailed) =>
           resp = storeAtAccept.data \o FirstRecords(received, echoes)
    /\ (pc \in AtfPcs /\ ~appendFailed) =>
           /\ storeAtAppend = storeAtAccept.data
                                  \o FirstRecords(received, echoes)
           /\ resp = <<>>
    /\ (pc = "sfc_close" /\ ~storeAtAccept.exists
           /\ packet_buf = <<"a", NL, "b", NL>>) =>
           /\ echoes = 1 => resp = <<"a", NL>>
           /\ echoes = 2 => resp = <<"a", NL, "b", NL>>

\* The second echo of a connection whose two records "a\n" and "b\n" are
\* both in the packet buffer.
C5_Witness ==
    /\ pc = "sfc_close"
    /\ echoes = 2
    /\ ~storeAtAccept.exists
    /\ packet_buf = <<"a", NL, "b", NL>>

\* C6: once an append or an echo of a connection has failed, handle_client
\* makes no further recv, append or echo on that connection.
C6_FailureClosesConnection ==
    (appendFailed \/ echoFailed) =>
        pc \notin ({"recv", "scan"} \cup AtfPcs \cup SfcPcs)

\* C7: a blocking call that returns EINTR is retried when the flag is false
\* and its loop is left when the flag is true.
C7_InterruptedCallsFollowFlag ==
    [][/\ (pc = "accept"
              /\ (main_accept_EINTR \/ \E s \in Signals : DeliverInCall(s)))
          => pc' = IF exit_requested' THEN "cleanup" ELSE "loop"
       /\ (pc = "recv"
              /\ (hc_recv_EINTR \/ \E s \in Signals : DeliverInCall(s)))
          => pc' = IF exit_requested' THEN "hc_return" ELSE "hc_loop"
       /\ (pc = "atf_write"
              /\ (atf_write_EINTR \/ \E s \in Signals : DeliverInCall(s)))
          => IF exit_requested' THEN pc' # "atf_write" ELSE pc' = "atf_write"
       /\ (pc = "sfc_send"
              /\ (sfc_send_EINTR \/ \E s \in Signals : DeliverInCall(s)))
          => IF exit_requested' THEN pc' # "sfc_send" ELSE pc' = "sfc_send"
       /\ (pc = "sfc_read"
              /\ (sfc_read_EINTR \/ \E s \in Signals : DeliverInCall(s)))
          => IF exit_requested' THEN pc' # "sfc_read" ELSE pc' = "sfc_read"
      ]_vars

\* C8: whenever no append is in progress, the file is the concatenation of
\* the records whose append returned success; a failed append leaves no
\* byte in the file.
C8_StoreIsSuccessfulAppends ==
    pc \notin AtfPcs => fileData = Flatten(appendedOK)

\* C9: whenever handle_client is about to call recv, packet_buf holds
\* exactly the bytes received after the last newline received.
C9_BufferIsUnterminatedSuffix ==
    pc = "recv" => packet_buf = Unterminated(received)

\* C10: a connection that received no newline leaves the file as it was at
\* accept (absent if it was absent) and is sent no response, however it
\* ends; the file never grows by more than the complete records received;
\* and outside handle_client, and when handle_client starts, packet_buf is
\* empty.
C10_ResidualBytesDiscarded ==
    /\ (pc = "hc_return" /\ NumNL(received) = 0) =>
           /\ fileData = storeAtAccept.data
           /\ fileExists = storeAtAccept.exists
           /\ echoes = 0
    /\ pc \in InHandler =>
           Len(fileData) <= Len(storeAtAccept.data)
                                + Len(CompleteRecords(received))
    /\ pc \notin InHandler => packet_buf = <<>>
    /\ (pc = "hc_loop" /\ received = <<>>) => packet_buf = <<>>

\* The client sent three bytes without a newline and closed.
C10_Witness ==
    /\ pc = "hc_return"
    /\ closeReason = "eof"
    /\ received = <<"a", "a", "a">>
    /\ packet_buf = received


\* C11: on a connection without a failed append or echo, whenever a chunk
\* has been processed (handle_client is about to call recv) the outcome
\* depends on the bytes received and not on how recv split them: the file
\* followed by packet_buf is the file at accept followed by the bytes
\* received (no byte lost, none appended twice), packet_buf holds no
\* newline, one response was started per newline received, and each
\* response is the file at accept plus the records received up to it.
C11_ChunkingIndependence ==
    /\ (pc = "recv" /\ ConnClean) =>
           /\ fileData \o packet_buf = storeAtAccept.data \o received
           /\ NumNL(packet_buf) = 0
           /\ echoes = NumNL(received)
    /\ (pc = "sfc_close" /\ ConnClean) =>
           /\ resp = storeAtAccept.data \o FirstRecords(received, echoes)
           /\ fileData = resp

\* A record was completed in an earlier chunk, the start of the next record
\* is buffered, and the chunk to come begins with the delimiter.
C11_Witness ==
    /\ pc = "recv"
    /\ ConnClean
    /\ NumNL(received) >= 1
    /\ packet_buf # <<>>
    /\ inflight # <<>>
    /\ Head(inflight) = NL

\* Client sockets that accept returned and main has not closed yet.
OpenClients == conns - clientCloses

\* C12: at most one client socket is open at any moment; one is open
\* exactly while handle_client runs or main is about to close it; accept is
\* called only with no client socket open; and the file is appended to or
\* read back only for the one connection that is open, no append or
\* read-back being in progress outside handle_client.
C12_OneConnectionAtATime ==
    /\ OpenClients \in {0, 1}
    /\ (OpenClients = 1) <=> (pc \in InHandler \cup {"close_client"})
    /\ (OpenClients = 1) <=> (client_fd = "open")
    /\ pc = "accept" => OpenClients = 0
    /\ pc \in AtfPcs \cup SfcPcs => OpenClients = 1
    /\ pc \notin AtfPcs => written = 0
    /\ pc \notin SfcPcs => fpos = 0 /\ buf = <<>> /\ sent_total = 0

\* The second connection is appending a record after the first was closed.
C12_Witness ==
    /\ pc = "atf_write"
    /\ conns = 2
    /\ clientCloses = 1
    /\ fileData # <<>>

\* C13: after an append or an echo of a connection has failed, and unless
\* shutdown is requested, the acceptor closes that client socket.
C13_FailureReturnsToAccept ==
    (appendFailed \/ echoFailed) ~> (client_fd # "open" \/ exit_requested)

\* Line 319: the exit status of the process is the low byte of ret.
ExitCode == ret % 256

\* C14: ret stays 0 unless a setup step fails; when main returns the exit
\* code is 0 exactly when no setup step failed, and then the accept loop
\* was reached and left with the flag set; it is nonzero exactly when a
\* setup step failed, and then no connection was ever accepted.
C14_ExitCode ==
    /\ failedSetup = "none" => ret = 0
    /\ pc = "done" =>
           /\ (ExitCode = 0) <=> (failedSetup = "none")
           /\ ExitCode = 0 =>
                  /\ exit_requested
                  /\ handlers = Signals
                  /\ serverCloses = 1
           /\ ExitCode # 0 => conns = 0

\* main returned 0 although a connection was served, a call failed and the
\* file could not be removed.
C14_Witness ==
    /\ pc = "done"
    /\ ExitCode = 0
    /\ conns > 0
    /\ faults > 0
    /\ fileExists

\* C15: after a failed setup step main is in its cleanup and no connection
\* was or will be accepted; close(server_fd) is called at most once, and
\* once main is past it, exactly once if the socket was created and not at
\* all otherwise; every client socket accept returned has been closed
\* exactly once when main reaches cleanup.
C15_SetupFailureIsFatal ==
    /\ failedSetup # "none" =>
           /\ pc \in {"cleanup", "remove", "done"}
           /\ conns = 0
    /\ serverCloses <= 1
    /\ clientCloses <= conns
    /\ pc \in {"remove", "done"} =>
           /\ server_fd # "open"
           /\ serverCloses = IF server_fd = "none" THEN 0 ELSE 1
    /\ pc \in {"cleanup", "remove", "done"} =>
           /\ clientCloses = conns
           /\ client_fd # "open"

\* bind failed: main returned after closing the socket it had created.
C15_Witness ==
    /\ pc = "done"
    /\ failedSetup = "bind"
    /\ serverCloses = 1
    /\ ret = -1

\* C16: exit_requested starts false; only a delivery of SIGINT or SIGTERM
\* to signal_handler changes it, and only from false to true; once true it
\* stays true.
C16_FlagOnlySetByHandler ==
    /\ ~exit_requested
    /\ [][exit_requested' # exit_requested =>
              /\ ~exit_requested
              /\ exit_requested'
              /\ \E s \in {SIGINT, SIGTERM} : Deliver(s) \/ DeliverInCall(s)
         ]_vars
    /\ [][exit_requested => exit_requested']_vars

\* The flag is still set when main has returned.
C16_Witness ==
    /\ exit_requested
    /\ pc = "done"
    /\ conns = MaxConns

\* C19: no step takes the process to a blocking call (accept, recv, write,
\* read, send) with the flag already true.
C19_FlagCheckedBeforeBlockingCalls ==
    [][(pc' \in BlockingCalls /\ pc' # pc) => ~exit_requested']_vars

\* C20: on every connection the number of send_file_contents calls equals
\* the number of appends that returned 0 and is at most the number of
\* newlines received (none without a newline); and while an echo runs, the
\* record it follows is the last one appended with success and is in the
\* file.
C20_ResponseOnlyAfterAppend ==
    /\ sfcCalls = echoes
    /\ sfcCalls <= NumNL(received)
    /\ NumNL(received) = 0 => sfcCalls = 0
    /\ pc \in SfcPcs =>
           /\ appendedOK # <<>>
           /\ appendedOK[Len(appendedOK)] = Record
           /\ fileData = storeAtAppend \o Record

\* A connection on which one append failed and two later records were
\* appended and echoed.
C20_Witness ==
    /\ pc = "sfc_close"
    /\ appendFailed
    /\ sfcCalls = 2
    /\ NumNL(received) = 3

\* The calls thread t has made so far.
Did(t, op) == \E k \in 1..Len(tops[t]) : tops[t][k] = op

\* Thread t acquired the mutex and has not released it.
Holds(t) == Did(t, "lock") /\ ~Did(t, "unlock")

\* s is the beginning of one of the sequences of calls threadfunc can make.
CallOrder(s) ==
    \E full \in {<<"usleep", "lock", "usleep", "unlock">>,
                 <<"usleep", "lock", "usleep", "unlock_failed">>,
                 <<"usleep", "lock_failed">>} : IsPrefix(s, full)

\* The order of every thread's calls, mutual exclusion and the meaning of
\* thread_complete_success.
ThreadsSafe ==
    /\ \A t \in Threads : CallOrder(tops[t])
    /\ \A t \in Threads :
           tpc[t] = "returned" =>
               Len(tops[t]) >= 2 /\ ~IsPrefix(tops[t], <<"usleep", "lock">>)
    /\ Cardinality({t \in Threads : Holds(t)}) <= 1
    /\ \A t \in Threads : Holds(t) <=> mutex = t
    /\ \A t \in Threads :
           thread_complete_success[t] <=>
               (tpc[t] = "returned" /\ Did(t, "lock") /\ Did(t, "unlock"))

\* C17: every thread makes its calls in the order sleep, lock,
\* sleep, unlock; at most one thread holds the mutex; a thread that has
\* returned does not hold the mutex; thread_complete_success is true
\* exactly when the thread has returned after both the lock and the unlock
\* succeeded; and every created thread returns.
C17_ThreadsLockAndRelease ==
    /\ []ThreadsSafe
    /\ [](\A t \in Threads : tpc[t] = "returned" => ~Holds(t))
    /\ \A t \in Threads : Running(t) ~> (tpc[t] = "returned")

(***************************************************************************)
(* append_to_file on its own: every call handle_client can make for the    *)
(* first record of a chunk, on a file that is absent or holds an earlier   *)
(* record, followed to its return.                                         *)
(***************************************************************************)
\* The buffers of at most MaxBytes bytes that hold a newline.
AppendBufs ==
    {p \in UNION {[1..n -> {"b", NL}] : n \in 1..MaxBytes} : NumNL(p) > 0}

\* Line 172 is reached for the first newline of packet_buf: start = 0 and
\* i is the index of that newline.
AppendInit ==
    /\ pc = "atf_open"
    /\ exit_requested = FALSE
    /\ handlers = Signals
    /\ ret = 0
    /\ server_fd = "open"
    /\ client_fd = "open"
    /\ fileExists \in BOOLEAN
    /\ fileData = IF fileExists THEN <<"a", NL>> ELSE <<>>
    /\ inflight = <<>>
    /\ peerClosed = FALSE
    /\ packet_buf \in AppendBufs
    /\ start = 0
    /\ i = NextNL(packet_buf, 0)
    /\ written = 0
    /\ fpos = 0
    /\ buf = <<>>
    /\ sent_total = 0
    /\ faults = 0
    /\ conns = IF fileExists THEN 2 ELSE 1
    /\ sentBytes = Len(fileData) + Len(packet_buf)
    /\ sentNL = NumNL(fileData) + NumNL(packet_buf)
    /\ received = packet_buf
    /\ resp = <<>>
    /\ echoes = 0
    /\ storeAtAccept = [exists |-> fileExists, data |-> fileData]
    /\ storeAtAppend = fileData
    /\ appendedOK = IF fileExists THEN <<fileData>> ELSE <<>>
    /\ appendFailed = FALSE
    /\ echoFailed = FALSE
    /\ closeReason = "none"
    /\ prevReceived = fileData
    /\ clientCloses = conns - 1
    /\ serverCloses = 0
    /\ failedSetup = "none"
    /\ sfcCalls = 0
    /\ flagAtAccept = FALSE
    /\ removeErrno = "none"
    /\ removeLogged = FALSE
    /\ submitted = <<i + 1>>
    /\ tpc = [t \in 1..NumThreads |-> "unstarted"]
    /\ mutex = 0
    /\ thread_complete_success = [t \in 1..NumThreads |-> FALSE]
    /\ tops = [t \in 1..NumThreads |-> <<>>]

\* The steps of append_to_file that the process takes when it can.
AppendProgress ==
    \/ atf_open
    \/ \E w \in 0..(MaxBytes + 1) : atf_write(w)
    \/ atf_close

\* A signal arrives while append_to_file runs.
AppendSignal(signo) ==
    /\ pc \in AtfPcs
    /\ Deliver(signo) \/ DeliverInCall(signo)

AppendNext ==
    \/ AppendProgress
    \/ atf_open_fails
    \/ atf_write_EINTR
    \/ atf_write_fails
    \/ atf_close_fails
    \/ \E signo \in Signals : AppendSignal(signo)

AppendSpec == AppendInit /\ [][AppendNext]_vars /\ WF_vars(AppendProgress)

AfterLateAccept ==
    {"hc_loop", "hc_return", "close_client", "loop", "cleanup", "remove",
     "done"}

\* C21: a connection whose accept returned with the flag already true is
\* never read from (recv is not reached, nothing is received), nothing is
\* appended to the file or echoed for it, the flag stays true, and once
\* handle_client has returned the client socket is closed and main goes
\* from the loop test to cleanup, never to accept again.
C21_LateConnectionNotServed ==
    flagAtAccept =>
        /\ exit_requested
        /\ pc \in AfterLateAccept
        /\ received = <<>>
        /\ sfcCalls = 0 /\ echoes = 0 /\ resp = <<>>
        /\ ~appendFailed /\ ~echoFailed
        /\ pc \in {"hc_loop", "hc_return", "close_client", "loop", "cleanup"}
               => /\ fileExists = storeAtAccept.exists
                  /\ fileData = storeAtAccept.data
        /\ pc \in {"loop", "cleanup", "remove", "done"}
               => client_fd = "closed" /\ clientCloses = conns

\* The signal arrived while main was between the loop test and accept; the
\* second connection was accepted all the same, it has been closed without
\* being served, and main has reached cleanup with the file of the first
\* connection untouched.
C21_Witness ==
    /\ flagAtAccept
    /\ pc = "cleanup"
    /\ conns = 2
    /\ clientCloses = 2
    /\ fileData # <<>>

\* What a file left at the fixed path by an earlier run holds.
StaleData == <<"a", NL>>

\* main is entered with the file absent, or with a file that this process
\* did not create.  The bytes of that file count as sent, so that MaxBytes
\* bounds the file here as well.
ExitInit ==
    /\ pc = "sigaction_int"
    /\ exit_requested = FALSE
    /\ handlers = {}
    /\ ret = 0
    /\ server_fd = "none"
    /\ client_fd = "none"
    /\ fileExists \in BOOLEAN
    /\ fileData = IF fileExists THEN StaleData ELSE <<>>
    /\ inflight = <<>>
    /\ peerClosed = FALSE
    /\ packet_buf = <<>>
    /\ start = 0
    /\ i = 0
    /\ written = 0
    /\ fpos = 0
    /\ buf = <<>>
    /\ sent_total = 0
    /\ faults = 0
    /\ conns = 0
    /\ sentBytes = Len(fileData)
    /\ sentNL = NumNL(fileData)
    /\ received = <<>>
    /\ resp = <<>>
    /\ echoes = 0
    /\ storeAtAccept = [exists |-> FALSE, data |-> <<>>]
    /\ storeAtAppend = <<>>
    /\ appendedOK = <<>>
    /\ appendFailed = FALSE
    /\ echoFailed = FALSE
    /\ closeReason = "none"
    /\ prevReceived = <<>>
    /\ clientCloses = 0
    /\ serverCloses = 0
    /\ failedSetup = "none"
    /\ sfcCalls = 0
    /\ flagAtAccept = FALSE
    /\ removeErrno = "none"
    /\ removeLogged = FALSE
    /\ submitted = <<>>
    /\ tpc = [t \in 1..NumThreads |-> "unstarted"]
    /\ mutex = 0
    /\ thread_complete_success = [t \in 1..NumThreads |-> FALSE]
    /\ tops = [t \in 1..NumThreads |-> <<>>]

ExitSpec == ExitInit /\ [][Next]_vars

\* C22 as stated: once main has returned the file is absent, and a file
\* that was already absent was not logged as an error.
C22_ReturnRemovesFile ==
    pc = "done" =>
        /\ ~fileExists
        /\ removeErrno = "ENOENT" => ~removeLogged

\* C22, amended: main calls remove once on every path to its return and
\* not before, also when a setup step failed, whether the file was left by
\* an earlier run or created by this one; after the return the file is
\* absent unless remove itself failed, in which case the failure is logged
\* and the file stays as it was; an absent file is not logged.
C22_ReturnRemovesFileUnlessRemoveFails ==
    /\ pc # "done" => removeErrno = "none" /\ ~removeLogged
    /\ pc = "done" =>
        /\ removeErrno \in {"0", "ENOENT", "EACCES"}
        /\ removeErrno \in {"0", "ENOENT"} => ~fileExists /\ ~removeLogged
        /\ removeErrno = "EACCES" => fileExists /\ removeLogged

\* listen failed before any connection was accepted, and the file an
\* earlier run had left has been removed.
C22_Witness ==
    /\ pc = "done"
    /\ failedSetup = "listen"
    /\ conns = 0
    /\ removeErrno = "0"
    /\ ~fileExists

\* C23: on every connection the records given to append_to_file end at
\* newlines of the received bytes, each further from the start than the
\* one before, so that no record is given twice, also after an append or
\* an echo failed; while append_to_file and send_file_contents run, the
\* record in hand is the last one given and starts after the one given
\* before it; and whenever the handler is about to receive again, every
\* record given so far, appended or not, has been dropped from packet_buf.
C23_RecordSubmittedAtMostOnce ==
    /\ \A k \in 1..Len(submitted) :
          /\ submitted[k] \in NLs(received)
          /\ k > 1 => submitted[k - 1] < submitted[k]
    /\ pc \in AtfPcs \cup SfcPcs =>
          /\ submitted # <<>>
          /\ submitted[Len(submitted)] = Dropped + i + 1
          /\ \A k \in 1..(Len(submitted) - 1) :
                submitted[k] <= Dropped + start
    /\ pc \in {"hc_loop", "recv"} =>
          \A k \in 1..Len(submitted) : submitted[k] <= Dropped

\* The append of the first record failed; two more records that followed
\* it have been given to append_to_file since, and the third one is being
\* echoed.
C23_Witness ==
    /\ appendFailed
    /\ Len(submitted) = 3
    /\ pc = "sfc_close"
    /\ Len(appendedOK) = 2
=============================================================================
